---------------------------- MODULE Spec2Model ----------------------------
(***************************************************************************)
(* Model of models/build_model.py: the Sparkify churn batch job.           *)
(*                                                                         *)
(* A dataframe of events is a bag (multiset) of rows, a row is a record    *)
(* whose field names are the column names.  A dataframe that the code      *)
(* passes through distinct() / drop_duplicates() is a set of rows.         *)
(* String columns are TLA+ strings; the location and state columns are     *)
(* sequences of one-character strings, because get_state parses them.      *)
(* Averages rounded to two decimals are integers counting hundredths.      *)
(***************************************************************************)
EXTENDS Integers, Sequences, FiniteSets, Bags, TLC

\* ------------------------------------------------------------------ bounds
\* greatest number of rows of an enumerated event log
MaxEvents == 3
\* greatest len(sys.argv) enumerated
MaxArgc == 4

\* ------------------------------------------------------------------ values
\* SQL NULL of a string column, and of the location / state columns
NULL == "<NULL>"
NullStr == <<NULL>>
\* SQL NULL of an integer column (counts are never negative)
NullInt == -1

OtherState == <<"O", "T", "H", "E", "R">>

\* number of seconds of a UTC calendar day (datetime.utcfromtimestamp)
SecondsPerDay == 86400
\* limit(11) of the 'find top states' step
TopStatesLimit == 11

Pages == {"NextSong", "Thumbs Up", "Thumbs Down", "Add Friend",
          "Cancellation Confirmation"}

\* "Los Angeles, CA", "New York, NY-NJ", "Austin,TX" abbreviated
LocCA == <<"L", "A", ",", " ", "C", "A">>
LocNJ == <<"N", "Y", ",", " ", "N", "Y", "-", "N", "J">>
LocTX == <<"A", ",", "T", "X">>

\* timestamps are milliseconds: 3600000 is a time of day 0, 90000000 of day 1

\* the days on which the job may run (days since the epoch)
Todays == {5, 6}

\* ------------------------------------------------------------ event logs
RowSet(users, pages, tss, levels, locations, genders) ==
    [userId : users, page : pages, ts : tss, level : levels,
     location : locations, gender : genders]

\* rows that differ in user and page: the label and the three counters
RowsLabel == RowSet({"", "u1", "u2"}, {"NextSong", "Cancellation Confirmation"},
                    {3600000, 90000000}, {"paid"}, {LocCA}, {"M"})
RowsCount == RowSet({"u1", "u2"}, Pages, {3600000}, {"paid"}, {LocCA}, {"M", NULL})
\* rows that differ in timestamp, level and location: the last-event columns
RowsLast  == RowSet({"u1", "u2"}, {"NextSong"}, {3600000, 90000000},
                    {"free", "paid"}, {LocCA, LocNJ}, {"F"})
\* rows of the cleaner: present, empty and absent user ids
RowsClean == RowSet({NULL, "", "u1", "u2"}, {"NextSong", "Thumbs Up"},
                    {3600000}, {"free", "paid"}, {LocCA}, {"M"})
\* rows of a whole run, with an absent location
RowsMain  == RowSet({"", "u1", "u2"}, {"NextSong", "Cancellation Confirmation"},
                    {3600000}, {"paid"}, {LocTX, NullStr}, {"M"})

RECURSIVE BagsOf(_, _)
\* every bag of at most n rows of R
BagsOf(R, n) ==
    IF n = 0 THEN {EmptyBag}
    ELSE LET prev == BagsOf(R, n - 1)
         IN  prev \cup {b (+) SetToBag({r}) : b \in prev, r \in R}

\* --------------------------------------------------------- dataframe algebra
Rows(df) == BagToSet(df)

\* df.filter(cond) / df.where(cond): keep is the set of rows on which cond is true
Filter(df, keep) == [r \in keep |-> df[r]]

\* the number of rows of df in keep
CountWhere(df, keep) == BagCardinality(Filter(df, keep))

\* every row r replaced by f[r], with its multiplicity
MapRows(df, f) ==
    [q \in {f[r] : r \in Rows(df)} |->
        BagCardinality([r \in {x \in Rows(df) : f[x] = q} |-> df[r]])]

\* df.withColumn(name, value): the column is added, or replaced when present
WithColumn(df, name, value) ==
    MapRows(df, [r \in Rows(df) |-> (name :> value[r]) @@ r])

\* df.drop(cols) of one row
DropCols(r, cols) == [c \in (DOMAIN r) \ cols |-> r[c]]

Max(S) == CHOOSE m \in S : \A x \in S : x <= m
Min(S) == CHOOSE m \in S : \A x \in S : m <= x

\* SQL comparison a != b: NULL when either side is NULL
SqlNeq(a, b) == IF a = NULL \/ b = NULL THEN NULL
                ELSE IF a # b THEN "true" ELSE "false"

\* ------------------------------------------------------------- clean_data
clean_data_keeps_null(df) == Filter(df, {r \in Rows(df) : r.userId # ""})

clean_data(df) == Filter(df, {r \in Rows(df) : SqlNeq(r.userId, "") = "true"})

\* SQL when(cond, value): value where cond holds, NULL elsewhere
When(cond, value, null) == IF cond THEN value ELSE null

\* ------------------------------------------------------ prepare_dataset
\* lines 80-96: the label
cancellation_event(x) == IF x = "Cancellation Confirmation" THEN 1 ELSE 0

cancelled_users(df) == {r.userId : r \in {q \in Rows(df) : q.churn = 1}}

fill_array_own_row(userId, features, cancelled) == features

fill_array(userId, features, cancelled) == IF userId \in cancelled THEN 1 ELSE 0

with_churn(df) ==
    LET d1 == WithColumn(df, "churn", [r \in Rows(df) |-> cancellation_event(r.page)])
        cancelled == cancelled_users(d1)
    IN  WithColumn(d1, "churn", [r \in Rows(d1) |-> fill_array(r.userId, r.churn, cancelled)])

\* Window.partitionBy('userId') of the row r
OfUser(df, r) == {q \in Rows(df) : q.userId = r.userId}

\* the UTC calendar day of a timestamp in milliseconds; '%Y-%m-%d' names the
\* day one to one, so the date string is the day number
get_date_from_ts(ts) == (ts \div 1000) \div SecondsPerDay

\* lines 98-115: first and last timestamp, dates, last_level
with_timestamps(df) ==
    LET d1 == WithColumn(df, "last_ts", [r \in Rows(df) |-> Max({q.ts : q \in OfUser(df, r)})])
        d2 == WithColumn(d1, "first_ts", [r \in Rows(d1) |-> Min({q.ts : q \in OfUser(df, r)})])
        d3 == WithColumn(d2, "last_date", [r \in Rows(d2) |-> get_date_from_ts(r.last_ts)])
        d4 == WithColumn(d3, "first_date", [r \in Rows(d3) |-> get_date_from_ts(r.first_ts)])
        d5 == WithColumn(d4, "date", [r \in Rows(d4) |-> get_date_from_ts(r.ts)])
    IN  WithColumn(d5, "last_level", [r \in Rows(d5) |-> When(r.last_ts = r.ts, r.level, NULL)])

RECURSIVE SumCounts(_)
\* the sum of the n column of a set of [userId, date, n] rows
SumCounts(S) ==
    IF S = {} THEN 0
    ELSE LET x == CHOOSE y \in S : TRUE IN x.n + SumCounts(S \ {x})

\* round(x, 2) of x = num / den, HALF_UP, in hundredths
Round2(num, den) == (200 * num + den) \div (2 * den)

\* count('userId').over(Window.partitionBy('userId', 'date')) ... distinct()
PerDay(df) ==
    {[userId |-> r.userId, date |-> r.date,
      n |-> CountWhere(df, {q \in Rows(df) : q.userId = r.userId /\ q.date = r.date})]
        : r \in Rows(df)}

\* avg(n).over(Window.partitionBy('userId')), rounded; one row per user once
\* the join's distinct() has removed the copies (one per day)
AvgPerUser(days) ==
    {[userId |-> d.userId,
      avg |-> LET mine == {e \in days : e.userId = d.userId}
              IN  Round2(SumCounts(mine), Cardinality(mine))] : d \in days}

\* lines 117-123
songs(df) ==
    {[songs_userId |-> a.userId, avg_songs |-> a.avg]
        : a \in AvgPerUser(PerDay(Filter(df, {r \in Rows(df) : r.page = "NextSong"})))}

\* lines 125-131
events(df) ==
    {[events_userId |-> a.userId, avg_events |-> a.avg] : a \in AvgPerUser(PerDay(df))}

\* count('userId').over(Window.partitionBy('userId')) ... distinct() of the
\* rows of one page
CountOfPage(df, page) ==
    LET d == Filter(df, {r \in Rows(df) : r.page = page})
    IN  {[userId |-> r.userId, n |-> CountWhere(d, {q \in Rows(d) : q.userId = r.userId})]
            : r \in Rows(d)}

\* lines 133-136
thumbsup(df) ==
    {[thumbsup_userId |-> c.userId, thumbs_up |-> c.n] : c \in CountOfPage(df, "Thumbs Up")}

\* lines 138-141
thumbsdown(df) ==
    {[thumbsdown_userId |-> c.userId, thumbs_down |-> c.n]
        : c \in CountOfPage(df, "Thumbs Down")}

\* lines 169-172
addfriend(df) ==
    {[addfriend_userId |-> c.userId, addfriend |-> c.n] : c \in CountOfPage(df, "Add Friend")}

\* lines 143-146: datediff(today, first_date)
with_days_active(df, today) ==
    WithColumn(df, "days_active", [r \in Rows(df) |-> today - r.first_date])

\* s.split(sep)[-1]
LastPart(s, sep) ==
    LET at == {i \in DOMAIN s : s[i] = sep}
    IN  IF at = {} THEN s ELSE SubSeq(s, Max(at) + 1, Len(s))

\* s.strip()
Strip(s) ==
    LET ink == {i \in DOMAIN s : s[i] # " "}
    IN  IF ink = {} THEN <<>> ELSE SubSeq(s, Min(ink), Max(ink))

\* lines 149-154
get_state(location) ==
    LET last == Strip(LastPart(location, ","))
    IN  IF Len(last) > 2 THEN Strip(LastPart(last, "-")) ELSE last

\* lines 156-160
with_state(df) ==
    LET d1 == WithColumn(df, "state", [r \in Rows(df) |-> get_state(r.location)])
    IN  WithColumn(d1, "last_state", [r \in Rows(d1) |-> When(r.last_ts = r.ts, r.state, NullStr)])

\* get_state(None) raises AttributeError when the job runs
prepare_raises(df) == \E r \in Rows(clean_data(df)) : r.location = NullStr

\* df.select('last_state').groupBy(df.last_state).count()
state_counts(df) ==
    {[last_state |-> r.last_state,
      count |-> CountWhere(df, {q \in Rows(df) : q.last_state = r.last_state})] : r \in Rows(df)}

\* sort(col("count").desc()): every order of the groups with counts descending
\* (the order of groups with equal counts is not determined)
SortDesc(G) ==
    {s \in [1 .. Cardinality(G) -> G] :
        /\ \A i, j \in DOMAIN s : i # j => s[i] # s[j]
        /\ \A i, j \in DOMAIN s : i < j => s[i].count >= s[j].count}

Limit(s, n) == SubSeq(s, 1, IF Len(s) < n THEN Len(s) ELSE n)

\* line 164: top_states['last_state'][1:]
top_states_list(top_states) == {top_states[i].last_state : i \in 2 .. Len(top_states)}

\* SQL value IN (list)
IsIn(v, list) ==
    IF v = NullStr THEN NULL
    ELSE IF v \in list THEN "true"
    ELSE IF NullStr \in list THEN NULL ELSE "false"

\* line 167
with_top_states(df, list) ==
    WithColumn(df, "last_state",
               [r \in Rows(df) |-> IF IsIn(r.last_state, list) = "true" THEN r.last_state
                          ELSE OtherState])

\* the dataframe of line 160, before the 'find top states' step
before_top_states(df, today) ==
    with_state(with_days_active(with_timestamps(with_churn(clean_data(df))), today))

\* every outcome of line 163
top_states_of(df, today) ==
    {Limit(s, TopStatesLimit) : s \in SortDesc(state_counts(before_top_states(df, today)))}

Select(r, cols) == [c \in cols |-> r[c]]

\* select(...).dropna().drop_duplicates() of lines 175-176
ml_base(df) ==
    {q \in {Select(r, {"userId", "gender", "churn", "last_level", "days_active",
                       "last_state"}) : r \in Rows(df)} :
        /\ q.userId # NULL /\ q.gender # NULL /\ q.last_level # NULL
        /\ q.last_state # NullStr}

\* a.join(b, a[lk] == b[rk]).distinct()
InnerJoin(a, b, lk, rk) ==
    UNION {{l @@ r : r \in {x \in b : x[rk] = l[lk]}} : l \in a}

LeftJoin_as_inner(a, b, lk, rk, nulls) == InnerJoin(a, b, lk, rk)

\* a.join(b, a[lk] == b[rk], how='left').distinct()
LeftJoin(a, b, lk, rk, nulls) ==
    InnerJoin(a, b, lk, rk)
        \cup {l @@ nulls : l \in {x \in a : \A r \in b : r[rk] # x[lk]}}

\* fillna(0, subset=[c])
FillNa0(a, c) == {[r EXCEPT ![c] = IF @ = NullInt THEN 0 ELSE @] : r \in a}

\* lines 174-185
assemble(df) ==
    LET m1 == InnerJoin(ml_base(df), songs(df), "userId", "songs_userId")
        m2 == InnerJoin(m1, events(df), "userId", "events_userId")
        m3 == FillNa0(LeftJoin(m2, thumbsup(df), "userId", "thumbsup_userId",
                               [thumbsup_userId |-> NULL, thumbs_up |-> NullInt]),
                      "thumbs_up")
        m4 == FillNa0(LeftJoin(m3, thumbsdown(df), "userId", "thumbsdown_userId",
                               [thumbsdown_userId |-> NULL, thumbs_down |-> NullInt]),
                      "thumbs_down")
        m5 == FillNa0(LeftJoin(m4, addfriend(df), "userId", "addfriend_userId",
                               [addfriend_userId |-> NULL, addfriend |-> NullInt]),
                      "addfriend")
    IN  {DropCols(r, {"songs_userId", "events_userId", "thumbsup_userId",
                      "thumbsdown_userId", "addfriend_userId"}) : r \in m5}

\* lines 53-187, for the clock's day and the outcome of the sort of line 163
prepare_dataset(df, today, top_states) ==
    LET d == with_top_states(before_top_states(df, today), top_states_list(top_states))
    IN  [df |-> d, df_ml |-> assemble(d)]

\* ------------------------------------------------------------ build_model
\* the outcomes of the sampler's uniform draw in [0, 1), in percent
Draws == {10 * k : k \in 0 .. 9}

RECURSIVE SumTo(_, _)
SumTo(w, i) == IF i = 0 THEN 0 ELSE w[i] + SumTo(w, i - 1)

\* the index of the split that a row with draw x falls in: randomSplit
\* normalises the weights and cuts [0, 1) at their running sums
SplitOf(w, x) ==
    CHOOSE i \in DOMAIN w :
        /\ 100 * SumTo(w, i - 1) <= x * SumTo(w, Len(w))
        /\ x * SumTo(w, Len(w)) < 100 * SumTo(w, i)

\* df.randomSplit(w, seed): x is the draw of every row
randomSplit(rows, w, x) == [i \in DOMAIN w |-> {r \in rows : SplitOf(w, x[r]) = i}]

\* line 204: [0.7, 0.3], and line 205: [0.5, 0.5], in tenths
TrainWeights == <<7, 3>>
TestWeights == <<5, 5>>

\* line 202
withColumnRenamed(rows, old, new) ==
    {[c \in ((DOMAIN r) \ {old}) \cup {new} |-> IF c = new THEN r[old] ELSE r[c]]
        : r \in rows}

\* lines 201-205: the three sets, for the draws x1 and x2 of the two calls
split3(rows, x1, x2) ==
    LET first == randomSplit(rows, TrainWeights, x1)
        second == randomSplit(first[2], TestWeights, x2)
    IN  [train |-> first[1], test |-> second[1], validation |-> second[2]]

\* ------------------------------------------------------------------ state
VARIABLES
    pc,          \* where main is
    argv_len,    \* len(sys.argv)
    data,        \* the dataframe load_data returned
    df,          \* the event dataframe prepare_dataset (or clean_data) returned
    df_ml,       \* the dataset prepare_dataset returned
    train, test, validation,   \* the three sets of build_model
    model,       \* the pipeline model of build_model
    saved,       \* what is stored at the model path
    stdout       \* the lines printed so far

vars == <<pc, argv_len, data, df, df_ml, train, test, validation, model, saved, stdout>>

NoModel == [fitted |-> FALSE, on |-> {}]
NoFile == [fitted |-> FALSE, on |-> {<<"no file">>}]

Blank ==
    /\ df = EmptyBag /\ df_ml = {}
    /\ train = {} /\ test = {} /\ validation = {}
    /\ model = NoModel /\ saved = NoFile

Init ==
    /\ pc = "start"
    /\ argv_len \in 1 .. MaxArgc
    /\ data = EmptyBag
    /\ stdout = <<>>
    /\ Blank

two_arguments_or_more(n) == n >= 3

\* line 278
two_arguments(n) == n = 3

\* lines 299-301
Usage ==
    /\ pc = "start" /\ ~two_arguments(argv_len)
    /\ stdout' = Append(stdout, "Give data filepath as argument one ...")
    /\ pc' = "done"
    /\ UNCHANGED <<argv_len, data, df, df_ml, train, test, validation, model, saved>>

\* lines 282-283 and 16-35
LoadData ==
    /\ pc = "start" /\ two_arguments(argv_len)
    /\ stdout' = Append(stdout, "Loading data...")
    /\ \E d \in BagsOf(RowsMain, MaxEvents) : data' = d
    /\ pc' = "loaded"
    /\ UNCHANGED <<argv_len, df, df_ml, train, test, validation, model, saved>>

\* lines 286-287 and 53-187
PrepareDataset ==
    /\ pc = "loaded" /\ ~prepare_raises(data)
    /\ stdout' = Append(stdout, "Processing data...")
    /\ \E today \in Todays : \E top \in top_states_of(data, today) :
          LET out == prepare_dataset(data, today, top)
          IN  df' = out.df /\ df_ml' = out.df_ml
    /\ pc' = "prepared"
    /\ UNCHANGED <<argv_len, data, train, test, validation, model, saved>>

\* lines 290-291 and 190-263
BuildModel ==
    /\ pc = "prepared"
    /\ LET rows == withColumnRenamed(df_ml, "churn", "label")
       IN  \E x1 \in [rows -> Draws] :
             \E x2 \in [randomSplit(rows, TrainWeights, x1)[2] -> Draws] :
                LET s == split3(rows, x1, x2)
                IN  \* pipeline.fit raises on an empty training set
                    /\ s.train # {}
                    /\ train' = s.train /\ test' = s.test /\ validation' = s.validation
                    /\ model' = [fitted |-> TRUE, on |-> s.train]
    /\ stdout' = stdout \o <<"Building mode...", "Train F1", "Test F1", "Validation F1">>
    /\ pc' = "built"
    /\ UNCHANGED <<argv_len, data, df, df_ml, saved>>

SaveModel_before_build ==
    /\ pc = "prepared"
    /\ stdout' = Append(stdout, "Saving model...")
    /\ saved' = model
    /\ pc' = "saved"
    /\ UNCHANGED <<argv_len, data, df, df_ml, train, test, validation, model>>

\* lines 294-295 and 265-274
SaveModel ==
    /\ pc = "built"
    /\ stdout' = Append(stdout, "Saving model...")
    /\ saved' = model
    /\ pc' = "saved"
    /\ UNCHANGED <<argv_len, data, df, df_ml, train, test, validation, model>>

\* line 297
Finish ==
    /\ pc = "saved"
    /\ stdout' = Append(stdout, "Training Complete.")
    /\ pc' = "done"
    /\ UNCHANGED <<argv_len, data, df, df_ml, train, test, validation, model, saved>>

\* the announcement main prints before the stage it is about to call
Announcement(at) ==
    CASE at = "start" -> "Loading data..."
      [] at = "loaded" -> "Processing data..."
      [] at = "prepared" -> "Building mode..."
      [] at = "built" -> "Saving model..."

\* a stage raises (no file to read, a job that fails, get_state(None), a model
\* path that cannot be written): main catches nothing, the run ends there
StageRaises ==
    /\ \/ pc = "start" /\ two_arguments(argv_len)
       \/ pc \in {"loaded", "prepared", "built"}
    /\ stdout' = Append(stdout, Announcement(pc))
    /\ pc' = "raised"
    /\ UNCHANGED <<argv_len, data, df, df_ml, train, test, validation, model, saved>>

Next == Usage \/ LoadData \/ PrepareDataset \/ BuildModel \/ SaveModel \/ Finish
            \/ StageRaises

\* a run of main
Spec == Init /\ [][Next]_vars

\* prepare_dataset alone, on every enumerated event log
Logs == BagsOf(RowsLabel, MaxEvents) \cup BagsOf(RowsCount, MaxEvents)
            \cup BagsOf(RowsLast, MaxEvents)

InitPrepare ==
    /\ pc = "loaded"
    /\ argv_len = 3
    /\ data \in Logs
    /\ stdout = <<"Loading data...">>
    /\ Blank

SpecPrepare == InitPrepare /\ [][PrepareDataset]_vars

\* clean_data alone
InitClean ==
    /\ pc = "loaded"
    /\ argv_len = 3
    /\ data \in BagsOf(RowsClean, MaxEvents)
    /\ stdout = <<"Loading data...">>
    /\ Blank

CleanData ==
    /\ pc = "loaded"
    /\ df' = clean_data(data)
    /\ pc' = "cleaned"
    /\ UNCHANGED <<argv_len, data, df_ml, train, test, validation, model, saved, stdout>>

SpecClean == InitClean /\ [][CleanData]_vars

\* -------------------------------------------------------------- claims
Present(u) == u # NULL /\ u # ""

UsersOf(d) == {r.userId : r \in Rows(d)}

Cancelled(u) ==
    \E r \in Rows(data) : r.userId = u /\ r.page = "Cancellation Confirmation"

\* C1: after prepare_dataset every row of a user with a non-empty userId, in the
\* event dataframe and in df_ml, has churn = 1 when some input event of the
\* user is a Cancellation Confirmation, and churn = 0 when none is.
Thm_C1 ==
    pc = "prepared" =>
        \A u \in {v \in UsersOf(data) : Present(v)} :
            LET c == IF Cancelled(u) THEN 1 ELSE 0
            IN  /\ \A r \in Rows(df) : r.userId = u => r.churn = c
                /\ \A m \in df_ml : m.userId = u => m.churn = c

\* a churned user with a row that precedes the cancellation, in both outputs,
\* beside a user who did not cancel
Witness_C1 ==
    /\ pc = "prepared"
    /\ \E r, c \in Rows(df) :
          /\ r.userId = c.userId /\ c.page = "Cancellation Confirmation"
          /\ r.ts < c.ts /\ r.churn = 1
          /\ \E m \in df_ml : m.userId = r.userId /\ m.churn = 1
    /\ \E m \in df_ml : m.churn = 0

\* C2: clean_data returns exactly the input rows whose userId is present and
\* not the empty string, each as often as the input holds it and unchanged.
Thm_C2 ==
    pc = "cleaned" =>
        /\ Rows(df) = {r \in Rows(data) : Present(r.userId)}
        /\ \A r \in Rows(df) : CopiesIn(r, df) = CopiesIn(r, data)

\* an input with an absent userId, an empty userId and a row that is kept
Witness_C2 ==
    /\ pc = "cleaned"
    /\ \E a, b \in Rows(data) : a.userId = NULL /\ b.userId = ""
    /\ df # EmptyBag

StageLines == <<"Loading data...", "Processing data...", "Building mode...",
                "Saving model...">>

IsStageLine(l) == \E i \in DOMAIN StageLines : StageLines[i] = l

Printed(l) == \E i \in DOMAIN stdout : stdout[i] = l

\* C3: in a run with two arguments the stages are announced and called in the
\* order load_data, prepare_dataset, build_model, save_model, each at most
\* once; what is stored is the fitted pipeline of build_model, nothing is
\* stored before the fit, and after a stage has raised nothing is stored and
\* 'Training Complete.' is not printed.
Thm_C3 ==
    argv_len = 3 =>
        /\ LET calls == SelectSeq(stdout, IsStageLine)
           IN  Len(calls) <= Len(StageLines) /\ calls = SubSeq(StageLines, 1, Len(calls))
        /\ Printed("Saving model...") => model.fitted /\ model.on = train
        /\ saved # NoFile => saved = model /\ model.fitted /\ Printed("Saving model...")
        /\ pc = "raised" => saved = NoFile /\ ~Printed("Training Complete.")
        /\ Printed("Training Complete.") => saved = model /\ saved # NoFile

\* a complete run that stored a pipeline fitted on a non-empty train set
Witness_C3 ==
    /\ pc = "done" /\ argv_len = 3
    /\ saved = model /\ model.fitted /\ model.on # {}
    /\ Printed("Training Complete.")

DocColumns == {"userId", "gender", "avg_events", "avg_songs", "thumbs_up",
               "thumbs_down", "active_days", "last_location", "last_level",
               "addfriends"}

\* C4: every row of df_ml has the ten columns of the docstring of
\* prepare_dataset.
CE_C4 == pc = "prepared" => \A m \in df_ml : DocColumns \subseteq DOMAIN m

\* C5: with a number of arguments other than two main only prints the usage
\* message: nothing is loaded, prepared, trained or stored.
Thm_C5 ==
    argv_len # 3 =>
        /\ pc \in {"start", "done"}
        /\ data = EmptyBag /\ Blank
        /\ \A i \in DOMAIN stdout : stdout[i] = "Give data filepath as argument one ..."
        /\ Len(stdout) <= 1

Witness_C5 ==
    /\ pc = "done" /\ argv_len # 3
    /\ stdout = <<"Give data filepath as argument one ...">>

\* the split a row falls in, for the draws of the two randomSplit calls
SplitName(x1, x2) ==
    IF SplitOf(TrainWeights, x1) = 1 THEN "train"
    ELSE IF SplitOf(TestWeights, x2) = 1 THEN "test" ELSE "validation"

\* the share of the draws that puts a row in the split, in percent
NominalPct(name) ==
    (100 * Cardinality({p \in Draws \X Draws : SplitName(p[1], p[2]) = name}))
        \div Cardinality(Draws \X Draws)

\* C6: build_model splits df_ml 60% / 20% / 20% into train, test and
\* validation; the three sets are pairwise disjoint and cover df_ml, the
\* pipeline is fitted on the train set, and F1 is reported for train, test and
\* validation in that order.
CE_C6 ==
    pc = "built" =>
        /\ NominalPct("train") = 60
        /\ NominalPct("test") = 20
        /\ NominalPct("validation") = 20
        /\ train \cap test = {} /\ train \cap validation = {} /\ test \cap validation = {}
        /\ train \cup test \cup validation = withColumnRenamed(df_ml, "churn", "label")
        /\ model.fitted /\ model.on = train
        /\ SelectSeq(stdout, LAMBDA l : l \in {"Train F1", "Test F1", "Validation F1"})
              = <<"Train F1", "Test F1", "Validation F1">>

EventsOf(u, page) == CountWhere(data, {r \in Rows(data) : r.userId = u /\ r.page = page})

LastEvents(u) ==
    {e \in Rows(data) : e.userId = u /\ \A q \in Rows(data) : q.userId = u => q.ts <= e.ts}

\* C7: for every user of df_ml, thumbs_up, thumbs_down and addfriend are the
\* numbers of the user's Thumbs Up, Thumbs Down and Add Friend events (0, not
\* null, when there is none), and a user with a song and a complete last event
\* is in df_ml whichever of the three kinds of event the user lacks.
Thm_C7 ==
    pc = "prepared" =>
        /\ \A m \in df_ml :
              /\ m.thumbs_up = EventsOf(m.userId, "Thumbs Up")
              /\ m.thumbs_down = EventsOf(m.userId, "Thumbs Down")
              /\ m.addfriend = EventsOf(m.userId, "Add Friend")
        /\ \A u \in {v \in UsersOf(data) : Present(v)} :
              (/\ EventsOf(u, "NextSong") > 0
               /\ \E e \in LastEvents(u) : e.gender # NULL /\ e.level # NULL)
                 => \E m \in df_ml : m.userId = u

\* a user of df_ml with two Thumbs Up events and none of the other two kinds
Witness_C7 ==
    /\ pc = "prepared"
    /\ \E m \in df_ml : m.thumbs_up = 2 /\ m.thumbs_down = 0 /\ m.addfriend = 0

\* C8: df_ml holds at most one row per userId, whose last_level is the level
\* of the user's event with the greatest timestamp and whose last_state is that
\* event's state (or 'OTHER' for a rare state), also when several events share
\* the greatest timestamp.
CE_C8 ==
    pc = "prepared" =>
        /\ \A m1, m2 \in df_ml : m1.userId = m2.userId => m1 = m2
        /\ \A m \in df_ml :
              \E e \in LastEvents(m.userId) :
                  /\ m.last_level = e.level
                  /\ m.last_state \in {get_state(e.location), OtherState}

\* the number of last events whose state is s
LastEventsIn(s) == CountWhere(df, {r \in Rows(df) : r.last_ts = r.ts /\ r.state = s})

\* s is one of the n most frequent states of the last events
AmongTop(s, n) ==
    Cardinality({t \in {r.state : r \in Rows(df)} : LastEventsIn(t) > LastEventsIn(s)}) < n

\* C9: after the 'find top states' step the last_state of a last event is its
\* state when that state is one of the 10 most frequent last-event states and
\* 'OTHER' when it is rarer, for every input.
CE_C9 ==
    pc = "prepared" =>
        \A r \in Rows(df) :
            r.last_ts = r.ts =>
                r.last_state = IF AmongTop(r.state, TopStatesLimit - 1) THEN r.state
                               ELSE OtherState

=============================================================================
